---- MODULE Spec2Model ----
(***************************************************************************)
(* Query ranking (src/query/ranking.rs), the prefix / and clause parsers    *)
(* (src/query/parser/prefix_query.rs,                                      *)
(* src/search/query/parser/and_query.rs), the analyzer registry            *)
(* (src/rusticsearch/analysis/registry.rs) and the similarity models       *)
(* (src/search/similarity.rs) of rusticsearch.                             *)
(*                                                                         *)
(* f64 scores are modelled as exact rationals [n, d] in lowest terms with  *)
(* d > 0; d = 0 encodes the IEEE special values (n = 0: NaN, n # 0: an     *)
(* infinity of the sign of n).  Rounding is not modelled.                  *)
(* Strings that are matched against each other are sequences of            *)
(* characters; field names and JSON keys are atomic strings.               *)
(***************************************************************************)
EXTENDS Integers, Sequences, FiniteSets

VARIABLES query, doc, result, json, parsed, pc,
          registry, returned, sim_args, sim_score

vars == <<query, doc, result, json, parsed, pc, registry, returned, sim_args, sim_score>>

\* The analyzer registry and the similarity model take no part in ranking and parsing
others == <<registry, returned, sim_args, sim_score>>
Unused == [tag |-> "Unused"]
OthersUnused ==
    /\ registry = Unused
    /\ returned = Unused
    /\ sim_args = Unused
    /\ sim_score = Unused

(***************************************************************************)
(* Bounds                                                                  *)
(***************************************************************************)
MaxStrLen == 2
MaxTokens == 2
MaxClauses == 3
MaxMsm == 2
MaxArray == 2
MaxRoot == 2
MaxExp == 2

Alphabet == {"a", "b"}

(***************************************************************************)
(* f64 arithmetic                                                          *)
(***************************************************************************)
Abs(i) == IF i < 0 THEN -i ELSE i

RECURSIVE GCD(_, _)
GCD(a, b) == IF b = 0 THEN a ELSE GCD(b, a % b)

NaN == [n |-> 0, d |-> 0]
Inf(sign) == [n |-> sign, d |-> 0]
IsNaN(x) == x.d = 0 /\ x.n = 0
IsInf(x) == x.d = 0 /\ x.n # 0
Sign(i) == IF i < 0 THEN -1 ELSE IF i > 0 THEN 1 ELSE 0

\* The rational n/d (d > 0) in lowest terms.
Rat(n, d) == LET g == GCD(Abs(n), d) IN [n |-> n \div g, d |-> d \div g]

\* `as f64` of an integer
AsF64(i) == Rat(i, 1)

\* f64 `+`
FAdd(x, y) ==
    IF IsNaN(x) \/ IsNaN(y) THEN NaN
    ELSE IF IsInf(x) /\ IsInf(y) THEN (IF x.n = y.n THEN x ELSE NaN)
    ELSE IF IsInf(x) THEN x
    ELSE IF IsInf(y) THEN y
    ELSE Rat(x.n * y.d + y.n * x.d, x.d * y.d)

\* f64 `*`
FMul(x, y) ==
    IF IsNaN(x) \/ IsNaN(y) THEN NaN
    ELSE IF IsInf(x) \/ IsInf(y)
         THEN (IF x.n = 0 \/ y.n = 0 THEN NaN ELSE Inf(Sign(x.n) * Sign(y.n)))
    ELSE Rat(x.n * y.n, x.d * y.d)

\* f64 `/` by a non-negative divisor
FDiv(x, y) ==
    IF IsNaN(x) \/ IsNaN(y) THEN NaN
    ELSE IF IsInf(y) THEN (IF IsInf(x) THEN NaN ELSE Rat(0, 1))
    ELSE IF y.n = 0 THEN (IF x.n = 0 THEN NaN ELSE Inf(Sign(x.n)))
    ELSE IF IsInf(x) THEN Inf(Sign(x.n) * Sign(y.n))
    ELSE Rat(x.n * y.d * Sign(y.n), x.d * Abs(y.n))

\* f64 `>`: false whenever an operand is NaN
FGt(x, y) ==
    IF IsNaN(x) \/ IsNaN(y) THEN FALSE
    ELSE IF IsInf(x) THEN x.n > 0 /\ x # y
    ELSE IF IsInf(y) THEN y.n < 0
    ELSE x.n * y.d > y.n * x.d

\* f64 `!=`
FNe(x, y) == IsNaN(x) \/ IsNaN(y) \/ x # y

Zero == Rat(0, 1)
One == Rat(1, 1)

(***************************************************************************)
(* Option<f64>                                                             *)
(***************************************************************************)
None == [tag |-> "None", val |-> Zero]
Some(x) == [tag |-> "Some", val |-> x]
IsSome(r) == r.tag = "Some"

(***************************************************************************)
(* Strings, terms, values, documents                                       *)
(***************************************************************************)
RECURSIVE SeqsUpTo(_, _)
SeqsUpTo(S, n) ==
    IF n = 0 THEN {<<>>}
    ELSE LET shorter == SeqsUpTo(S, n - 1)
         IN shorter \cup {Append(s, x) : s \in {t \in shorter : Len(t) = n - 1}, x \in S}

Strings == SeqsUpTo(Alphabet, MaxStrLen)

StartsWith(s, p) == Len(p) <= Len(s) /\ SubSeq(s, 1, Len(p)) = p

\* TermMatcher::matches(value, query)
MatcherMatches(matcher, value, term) ==
    IF matcher = "Exact" THEN value = term ELSE StartsWith(value, term)

VString(s) == [kind |-> "String", s |-> s]
VTSVector(tokens) == [kind |-> "TSVector", tokens |-> tokens]
VInteger(i) == [kind |-> "Integer", i |-> i]

FieldNames == {"f", "g"}

(***************************************************************************)
(* Query nodes                                                             *)
(***************************************************************************)
MatchAll(boost) == [type |-> "MatchAll", boost |-> boost]
MatchNone == [type |-> "MatchNone"]
MatchTerm(field, value, matcher, boost) ==
    [type |-> "MatchTerm", field |-> field, value |-> value, matcher |-> matcher, boost |-> boost]
Bool(must, must_not, should, filter, minimum_should_match, boost) ==
    [type |-> "Bool", must |-> must, must_not |-> must_not, should |-> should,
     filter |-> filter, minimum_should_match |-> minimum_should_match, boost |-> boost]
DisjunctionMax(queries, boost) == [type |-> "DisjunctionMax", queries |-> queries, boost |-> boost]
BoostScore(q, boost) == [type |-> "BoostScore", query |-> q, boost |-> boost]
Conjunction(queries) == [type |-> "Conjunction", queries |-> queries]
\* MatchTerm as the clause parsers construct it: a term, no boost
ParsedMatchTerm(field, term, matcher) ==
    [type |-> "MatchTerm", field |-> field, term |-> term, matcher |-> matcher]

\* Outcome for a node that no arm of the match in Query::rank covers.
NoArm == [tag |-> "NoArm", val |-> Zero]

(***************************************************************************)
(* Query::rank                                                             *)
(***************************************************************************)
\* The TSVector loop leaving at the first accepted token
RECURSIVE CountMatched_StopAtFirst(_, _, _, _, _)
CountMatched_StopAtFirst(matcher, tokens, term, i, matched_terms) ==
    IF i > Len(tokens) THEN matched_terms
    ELSE IF MatcherMatches(matcher, tokens[i], term) THEN matched_terms + 1
    ELSE CountMatched_StopAtFirst(matcher, tokens, term, i + 1, matched_terms)

\* The TSVector loop: matched_terms after visiting tokens i..Len(tokens)
RECURSIVE CountMatched(_, _, _, _, _)
CountMatched(matcher, tokens, term, i, matched_terms) ==
    IF i > Len(tokens) THEN matched_terms
    ELSE CountMatched(matcher, tokens, term, i + 1,
                      IF MatcherMatches(matcher, tokens[i], term)
                      THEN matched_terms + 1 ELSE matched_terms)

RankMatchTerm(q, d) ==
    IF q.field \in DOMAIN d
    THEN LET field_value == d[q.field] IN
         IF field_value.kind = "String"
         THEN IF q.value.kind = "String"
              THEN (IF MatcherMatches(q.matcher, field_value.s, q.value.s)
                    THEN Some(q.boost) ELSE None)
              ELSE None
         ELSE IF field_value.kind = "TSVector"
         THEN IF q.value.kind = "String"
              THEN LET matched_terms ==
                           CountMatched(q.matcher, field_value.tokens, q.value.s, 1, 0)
                   IN IF matched_terms > 0
                      THEN Some(FMul(AsF64(matched_terms), q.boost))
                      ELSE None
              ELSE None
         ELSE None
    ELSE None

RECURSIVE Rank(_, _)
RECURSIVE MustNotLoop(_, _, _)
RECURSIVE FilterLoop(_, _, _)
RECURSIVE MustLoop(_, _, _, _)
RECURSIVE ShouldLoop(_, _, _, _)
RECURSIVE DisMaxLoop(_, _, _, _)

\* Query::matches: rank(doc).is_some()
Matches(q, d) == IsSome(Rank(q, d))

\* TRUE iff the must_not loop returns None from rank
MustNotLoop(must_not, i, d) ==
    IF i > Len(must_not) THEN FALSE
    ELSE IF Matches(must_not[i], d) THEN TRUE
    ELSE MustNotLoop(must_not, i + 1, d)

\* TRUE iff the filter loop returns None from rank
FilterLoop(filter, i, d) ==
    IF i > Len(filter) THEN FALSE
    ELSE IF ~Matches(filter[i], d) THEN TRUE
    ELSE FilterLoop(filter, i + 1, d)

\* None iff the must loop returns None from rank, else Some(total_score)
MustLoop(must, i, d, total_score) ==
    IF i > Len(must) THEN Some(total_score)
    ELSE LET r == Rank(must[i], d) IN
         IF IsSome(r) THEN MustLoop(must, i + 1, d, FAdd(total_score, r.val))
         ELSE None

\* should_matched and total_score after the should loop
ShouldLoop(should, i, d, st) ==
    IF i > Len(should) THEN st
    ELSE LET r == Rank(should[i], d) IN
         ShouldLoop(should, i + 1, d,
                    IF IsSome(r)
                    THEN [should_matched |-> st.should_matched + 1,
                          total_score |-> FAdd(st.total_score, r.val)]
                    ELSE st)

\* The Bool arm without the minimum_should_match test
RankBool_NoMinimumShouldMatch(q, d) ==
    IF MustNotLoop(q.must_not, 1, d) THEN None
    ELSE IF FilterLoop(q.filter, 1, d) THEN None
    ELSE LET m == MustLoop(q.must, 1, d, Zero) IN
         IF ~IsSome(m) THEN None
         ELSE LET st == ShouldLoop(q.should, 1, d,
                                   [should_matched |-> 0, total_score |-> m.val])
              IN Some(FDiv(FMul(st.total_score, q.boost),
                           AsF64(Len(q.must) + Len(q.should))))

\* The Bool arm averaging over the clauses that matched only
RankBool_DivideByMatched(q, d) ==
    IF MustNotLoop(q.must_not, 1, d) THEN None
    ELSE IF FilterLoop(q.filter, 1, d) THEN None
    ELSE LET m == MustLoop(q.must, 1, d, Zero) IN
         IF ~IsSome(m) THEN None
         ELSE LET st == ShouldLoop(q.should, 1, d,
                                   [should_matched |-> 0, total_score |-> m.val])
              IN IF st.should_matched < q.minimum_should_match THEN None
                 ELSE Some(FDiv(FMul(st.total_score, q.boost),
                                AsF64(Len(q.must) + st.should_matched)))

RankBool(q, d) ==
    IF MustNotLoop(q.must_not, 1, d) THEN None
    ELSE IF FilterLoop(q.filter, 1, d) THEN None
    ELSE LET m == MustLoop(q.must, 1, d, Zero) IN
         IF ~IsSome(m) THEN None
         ELSE LET st == ShouldLoop(q.should, 1, d,
                                   [should_matched |-> 0, total_score |-> m.val])
              IN IF st.should_matched < q.minimum_should_match THEN None
                 ELSE Some(FDiv(FMul(st.total_score, q.boost),
                                AsF64(Len(q.must) + Len(q.should))))

\* something_matched and max_score after the loop
DisMaxLoop(queries, i, d, st) ==
    IF i > Len(queries) THEN st
    ELSE LET r == Rank(queries[i], d) IN
         DisMaxLoop(queries, i + 1, d,
                    IF IsSome(r)
                    THEN [something_matched |-> TRUE,
                          max_score |-> IF FGt(r.val, st.max_score)
                                        THEN r.val ELSE st.max_score]
                    ELSE st)

RankDisjunctionMax(q, d) ==
    LET st == DisMaxLoop(q.queries, 1, d, [something_matched |-> FALSE, max_score |-> Zero])
    IN IF st.something_matched THEN Some(FMul(st.max_score, q.boost)) ELSE None

\* The arms of the match; the MatchTerm pattern binds field, value, matcher, boost.
Rank(q, d) ==
    IF q.type = "MatchAll" THEN Some(q.boost)
    ELSE IF q.type = "MatchNone" THEN None
    ELSE IF q.type = "MatchTerm" /\ {"value", "boost"} \subseteq DOMAIN q THEN RankMatchTerm(q, d)
    ELSE IF q.type = "Bool" THEN RankBool(q, d)
    ELSE IF q.type = "DisjunctionMax" THEN RankDisjunctionMax(q, d)
    ELSE NoArm

(***************************************************************************)
(* Json, Result<Query, QueryParseError>                                    *)
(***************************************************************************)
JString(s) == [kind |-> "String", s |-> s]
JI64(i) == [kind |-> "I64", i |-> i]
JF64(x) == [kind |-> "F64", x |-> x]
JArray(items) == [kind |-> "Array", items |-> items]
\* Json::Object is a BTreeMap<String, Json>: a map iterated in key order
JObject(map) == [kind |-> "Object", map |-> map]
NoJson == [kind |-> "Null"]

\* The keys used, in ascending (byte-wise) order
KeyOrder == <<"analyzer", "boost", "f", "g", "hello", "prefix", "query", "term", "value">>

InMap(map, k) == k \in DOMAIN map
\* BTreeMap::keys / iter: the keys of the map in ascending order
OrderedKeys(map) == SelectSeq(KeyOrder, LAMBDA k : InMap(map, k))

Ok(q) == [ok |-> TRUE, query |-> q]
Err(e) == [ok |-> FALSE, err |-> e]
Error(name) == [name |-> name, key |-> ""]
ExpectedObject == Error("ExpectedObject")
ExpectedArray == Error("ExpectedArray")
ExpectedObjectOrString == Error("ExpectedObjectOrString")
ExpectedSingleKey == Error("ExpectedSingleKey")
ExpectedFloat == Error("ExpectedFloat")
UnrecognisedKey(key) == [name |-> "UnrecognisedKey", key |-> key]
ExpectedKey(key) == [name |-> "ExpectedKey", key |-> key]
NoError == Error("")
NotParsed == Err(Error("NotParsed"))

\* query::parser::utils::parse_float: an integer or a float, as f64
ParseFloat(j) ==
    IF j.kind = "I64" THEN [err |-> NoError, val |-> AsF64(j.i)]
    ELSE IF j.kind = "F64" THEN [err |-> NoError, val |-> j.x]
    ELSE [err |-> ExpectedFloat, val |-> Zero]

\* Term::from_json
TermString(s) == [kind |-> "String", s |-> s]
TermFromJson(j) == IF j.kind = "String" THEN TermString(j.s) ELSE [kind |-> "Other"]

(***************************************************************************)
(* prefix_query::parse                                                     *)
(***************************************************************************)
\* The loop over the inner object passing over keys it does not recognise
RECURSIVE InnerLoop_SkipUnknown(_, _, _, _)
InnerLoop_SkipUnknown(inner_object, keys, i, cfg) ==
    IF i > Len(keys) THEN cfg
    ELSE LET key == keys[i]
             val == inner_object[key]
         IN IF key = "value" \/ key = "prefix"
            THEN InnerLoop_SkipUnknown(inner_object, keys, i + 1, [cfg EXCEPT !.value = val])
            ELSE IF key = "boost"
                 THEN LET f == ParseFloat(val) IN
                      IF f.err # NoError THEN [cfg EXCEPT !.err = f.err]
                      ELSE InnerLoop_SkipUnknown(inner_object, keys, i + 1,
                                                 [cfg EXCEPT !.boost = f.val])
            ELSE InnerLoop_SkipUnknown(inner_object, keys, i + 1, cfg)

\* The loop over the inner object: value, boost and the error that ended it
RECURSIVE InnerLoop(_, _, _, _)
InnerLoop(inner_object, keys, i, cfg) ==
    IF i > Len(keys) THEN cfg
    ELSE LET key == keys[i]
             val == inner_object[key]
         IN IF key = "value" THEN InnerLoop(inner_object, keys, i + 1, [cfg EXCEPT !.value = val])
            ELSE IF key = "prefix" THEN InnerLoop(inner_object, keys, i + 1, [cfg EXCEPT !.value = val])
            ELSE IF key = "boost"
                 THEN LET f == ParseFloat(val) IN
                      IF f.err # NoError THEN [cfg EXCEPT !.err = f.err]
                      ELSE InnerLoop(inner_object, keys, i + 1, [cfg EXCEPT !.boost = f.val])
            ELSE [cfg EXCEPT !.err = UnrecognisedKey(key)]

\* prefix_query::parse wrapping the MatchTerm whatever the boost
PrefixParse_AlwaysWrap(j) ==
    IF j.kind # "Object" THEN Err(ExpectedObject)
    ELSE IF Cardinality(DOMAIN j.map) # 1 THEN Err(ExpectedSingleKey)
    ELSE LET field_name == OrderedKeys(j.map)[1]
             object == j.map[field_name]
             cfg0 == [value |-> NoJson, boost |-> One, err |-> NoError]
             cfg == IF object.kind = "String" THEN [cfg0 EXCEPT !.value = object]
                    ELSE IF object.kind = "Object"
                         THEN InnerLoop(object.map, OrderedKeys(object.map), 1, cfg0)
                    ELSE [cfg0 EXCEPT !.err = ExpectedObjectOrString]
         IN IF cfg.err # NoError THEN Err(cfg.err)
            ELSE IF cfg.value # NoJson
                 THEN Ok(BoostScore(ParsedMatchTerm(field_name, TermFromJson(cfg.value), "Prefix"),
                                    cfg.boost))
            ELSE Err(ExpectedKey("value"))

PrefixParse(j) ==
    IF j.kind # "Object" THEN Err(ExpectedObject)
    ELSE IF Cardinality(DOMAIN j.map) # 1 THEN Err(ExpectedSingleKey)
    ELSE LET field_name == OrderedKeys(j.map)[1]
             object == j.map[field_name]
             cfg0 == [value |-> NoJson, boost |-> One, err |-> NoError]
             cfg == IF object.kind = "String" THEN [cfg0 EXCEPT !.value = object]
                    ELSE IF object.kind = "Object"
                         THEN InnerLoop(object.map, OrderedKeys(object.map), 1, cfg0)
                    ELSE [cfg0 EXCEPT !.err = ExpectedObjectOrString]
         IN IF cfg.err # NoError THEN Err(cfg.err)
            ELSE IF cfg.value # NoJson
                 THEN LET q == ParsedMatchTerm(field_name, TermFromJson(cfg.value), "Prefix")
                      IN Ok(IF FNe(cfg.boost, One) THEN BoostScore(q, cfg.boost) ELSE q)
            ELSE Err(ExpectedKey("value"))

(***************************************************************************)
(* and_query::parse                                                        *)
(***************************************************************************)
\* The term clause parser, shorthand form {field: "v"} only
TermParse(j) ==
    IF j.kind # "Object" THEN Err(ExpectedObject)
    ELSE IF Cardinality(DOMAIN j.map) # 1 THEN Err(ExpectedSingleKey)
    ELSE LET field_name == OrderedKeys(j.map)[1]
             object == j.map[field_name]
         IN IF object.kind = "String"
            THEN Ok(ParsedMatchTerm(field_name, TermFromJson(object), "Exact"))
            ELSE Err(ExpectedObjectOrString)

\* query::parser::parse: dispatch on the query-type key
ParseQuery(j) ==
    IF j.kind # "Object" THEN Err(ExpectedObject)
    ELSE IF Cardinality(DOMAIN j.map) # 1 THEN Err(ExpectedSingleKey)
    ELSE LET qtype == OrderedKeys(j.map)[1] IN
         IF qtype = "term" THEN TermParse(j.map[qtype])
         ELSE IF qtype = "prefix" THEN PrefixParse(j.map[qtype])
         ELSE Err(UnrecognisedKey(qtype))

\* The loop over the array: the sub-queries pushed, or the first error
RECURSIVE SubQueriesLoop(_, _, _)
SubQueriesLoop(filters, i, sub_queries) ==
    IF i > Len(filters) THEN Ok(sub_queries)
    ELSE LET r == ParseQuery(filters[i]) IN
         IF r.ok THEN SubQueriesLoop(filters, i + 1, Append(sub_queries, r.query))
         ELSE r

\* Query::new_conjunction
NewConjunction(sub_queries) == Conjunction(sub_queries)

AndParse(j) ==
    IF j.kind # "Array" THEN Err(ExpectedArray)
    ELSE LET r == SubQueriesLoop(j.items, 1, <<>>) IN
         IF r.ok THEN Ok(NewConjunction(r.query)) ELSE r

(***************************************************************************)
(* Inputs of rank                                                          *)
(***************************************************************************)
Two == Rat(2, 1)
Boosts == {One, Two}
Matchers == {"Exact", "Prefix"}

TermValues == {VString(s) : s \in Strings} \cup {VInteger(1)}
FieldValues == {VString(s) : s \in Strings}
                   \cup {VTSVector(t) : t \in SeqsUpTo(Strings, MaxTokens)}
                   \cup {VInteger(1)}

\* Documents: a map from some of the field names to values
EmptyDoc == <<>>
DocWith(field, v) == [x \in {field} |-> v]
Docs == {EmptyDoc} \cup {DocWith("f", v) : v \in FieldValues}

TermQueries ==
    {MatchTerm(field, value, matcher, boost) :
        field \in FieldNames, value \in TermValues, matcher \in Matchers, boost \in Boosts}

\* Clauses the compound queries are built from
EmptyBool == Bool(<<>>, <<>>, <<>>, <<>>, 0, One)
ClausePool ==
    {MatchAll(Two), MatchNone, MatchTerm("f", VString(<<"a">>), "Prefix", One), EmptyBool,
     Bool(<<MatchAll(One)>>, <<>>, <<MatchNone>>, <<>>, 0, One)}

CompoundDocs ==
    {DocWith("f", VTSVector(<<<<"a">>, <<"a", "b">>>>)),
     DocWith("f", VString(<<"a">>)),
     DocWith("f", VString(<<"b">>))}

\* The four clause lists of a Bool node, at most n clauses in all
RECURSIVE ClauseLists(_)
ClauseLists(n) ==
    IF n = 0 THEN {[must |-> <<>>, must_not |-> <<>>, should |-> <<>>, filter |-> <<>>]}
    ELSE LET prev == ClauseLists(n - 1) IN
         prev \cup {[c EXCEPT !.must = Append(@, q)] : c \in prev, q \in ClausePool}
              \cup {[c EXCEPT !.must_not = Append(@, q)] : c \in prev, q \in ClausePool}
              \cup {[c EXCEPT !.should = Append(@, q)] : c \in prev, q \in ClausePool}
              \cup {[c EXCEPT !.filter = Append(@, q)] : c \in prev, q \in ClausePool}

BoolQueries ==
    {Bool(c.must, c.must_not, c.should, c.filter, msm, boost) :
        c \in ClauseLists(MaxClauses), msm \in 0..MaxMsm, boost \in Boosts}

DisjunctionMaxQueries ==
    {DisjunctionMax(qs, boost) : qs \in SeqsUpTo(ClausePool, MaxClauses), boost \in Boosts}

BoostScoreQueries == {BoostScore(q, boost) : q \in ClausePool, boost \in Boosts}

ConjunctionQueries == {Conjunction(qs) : qs \in SeqsUpTo(ClausePool, MaxClauses)}

CompoundQueries ==
    {MatchAll(b) : b \in Boosts} \cup {MatchNone} \cup BoolQueries
        \cup DisjunctionMaxQueries \cup BoostScoreQueries \cup ConjunctionQueries

Unranked == [tag |-> "Unranked", val |-> Zero]

(***************************************************************************)
(* Ranking one document against one query                                  *)
(***************************************************************************)
Init ==
    /\ \/ query \in TermQueries /\ doc \in Docs
       \/ query \in CompoundQueries /\ doc \in CompoundDocs
    /\ result = Unranked
    /\ json = NoJson
    /\ parsed = NotParsed
    /\ pc = "start"
    /\ OthersUnused

RankDoc ==
    /\ pc = "start"
    /\ result' = Rank(query, doc)
    /\ pc' = "ranked"
    /\ UNCHANGED <<query, doc, json, parsed>>
    /\ UNCHANGED others

Next == RankDoc

Spec == Init /\ [][Next]_vars

(***************************************************************************)
(* Properties of rank                                                      *)
(***************************************************************************)
Idx(s) == 1..Len(s)

Ranked(type) == pc = "ranked" /\ query.type = type

ShouldMatchedIdx(q, d) == {i \in Idx(q.should) : Matches(q.should[i], d)}

MustNotHit(q, d) == \E i \in Idx(q.must_not) : Matches(q.must_not[i], d)
FilterMiss(q, d) == \E i \in Idx(q.filter) : ~Matches(q.filter[i], d)
MustMiss(q, d) == \E i \in Idx(q.must) : Rank(q.must[i], d) = None
ShouldShort(q, d) == Cardinality(ShouldMatchedIdx(q, d)) < q.minimum_should_match

BoolRejected(q, d) ==
    MustNotHit(q, d) \/ FilterMiss(q, d) \/ MustMiss(q, d) \/ ShouldShort(q, d)

\* Sum of the scores of the clauses of qs at the indices I
RECURSIVE SumScores(_, _, _)
SumScores(qs, I, d) ==
    IF I = {} THEN Zero
    ELSE LET i == CHOOSE j \in I : TRUE
         IN FAdd(Rank(qs[i], d).val, SumScores(qs, I \ {i}, d))

\* C1: a Bool node ranks None exactly when a must_not clause matches, a
\* filter clause does not match, a must clause ranks None, or fewer should
\* clauses match than minimum_should_match; in every other case it ranks
\* Some score.
C1_BoolNone ==
    Ranked("Bool") =>
        /\ BoolRejected(query, doc) => result = None
        /\ ~BoolRejected(query, doc) => result.tag = "Some"

\* C1 witnesses: every must clause matched and still too few should clauses
\* matched; a must_not clause matched while must, should and filter all accept.
C1_Witness ==
    /\ Ranked("Bool")
    /\ query.must # <<>>
    /\ ~MustMiss(query, doc) /\ ~MustNotHit(query, doc) /\ ~FilterMiss(query, doc)
    /\ ShouldShort(query, doc)
    /\ result = None

\* C2: a Bool node with empty must and should that is not rejected ranks
\* Some(boost).
C2_EmptyBoolIsBoost ==
    (Ranked("Bool") /\ query.must = <<>> /\ query.should = <<>> /\ ~BoolRejected(query, doc))
        => result = Some(query.boost)

BoolFormula(q, d) ==
    FDiv(FMul(FAdd(SumScores(q.must, Idx(q.must), d),
                   SumScores(q.should, ShouldMatchedIdx(q, d), d)),
              q.boost),
         AsF64(Len(q.must) + Len(q.should)))

C4_BoostScoreRanked ==
    Ranked("BoostScore") =>
        LET inner == Rank(query.query, doc)
        IN result = IF IsSome(inner) THEN Some(FMul(inner.val, query.boost)) ELSE None

Accepts(matcher, s, term) == term.kind = "String" /\ MatcherMatches(matcher, s, term.s)

\* C6: a MatchTerm node ranks None on a missing field; on a String field
\* Some(boost) iff the matcher accepts it; on a TSVector field Some(n * boost)
\* for n > 0 accepted tokens and None for n = 0; None on any other kind.
C6_MatchTerm ==
    Ranked("MatchTerm") =>
        IF query.field \notin DOMAIN doc THEN result = None
        ELSE LET v == doc[query.field] IN
             CASE v.kind = "String" ->
                    result = IF Accepts(query.matcher, v.s, query.value)
                             THEN Some(query.boost) ELSE None
               [] v.kind = "TSVector" ->
                    LET n == Cardinality({i \in Idx(v.tokens) :
                                            Accepts(query.matcher, v.tokens[i], query.value)})
                    IN result = IF n > 0 THEN Some(FMul(AsF64(n), query.boost)) ELSE None
               [] OTHER -> result = None

\* C6 witness: a TSVector holding the same accepted token twice, and a
\* non-unit boost.
C6_Witness ==
    /\ Ranked("MatchTerm")
    /\ query.field \in DOMAIN doc
    /\ doc[query.field].kind = "TSVector"
    /\ query.matcher = "Prefix"
    /\ query.boost = Two
    /\ \E t \in Strings : t # <<>> /\ doc[query.field].tokens = <<t, t>>
    /\ result = Some(Rat(4, 1))

MatchingScores(qs, d) == {Rank(qs[i], d).val : i \in {j \in Idx(qs) : Matches(qs[j], d)}}

\* C7: a DisjunctionMax node ranks None iff no sub-query matches, and
\* otherwise Some(boost * m) for m the maximum score of the matching
\* sub-queries.
C7_DisjunctionMax ==
    Ranked("DisjunctionMax") =>
        LET S == MatchingScores(query.queries, doc) IN
        IF S = {} THEN result = None
        ELSE \E m \in S : /\ \A x \in S : ~FGt(x, m)
                           /\ result = Some(FMul(query.boost, m))

(***************************************************************************)
(* Inputs of the clause parsers                                            *)
(***************************************************************************)
StrA == <<"a">>
StrB == <<"b">>
StrAB == <<"a", "b">>

\* {k: v}
Single(k, v) == [x \in {k} |-> v]
Extend(map, k, v) == [x \in DOMAIN map \cup {k} |-> IF x = k THEN v ELSE map[x]]

InnerKeys == <<"analyzer", "boost", "hello", "prefix", "query", "value">>

InnerValues(k) ==
    CASE k = "boost" -> {JI64(1), JI64(2), JF64(One), JF64(Two), JF64(Rat(3, 2)),
                         JString(StrB), JArray(<<JI64(2)>>), JObject(Single("value", JI64(2)))}
      [] k = "value" -> {JString(StrA), JString(StrAB)}
      [] k = "prefix" -> {JString(StrA), JString(StrB)}
      [] k = "query" -> {JString(StrA), JString(StrAB)}
      [] OTHER -> {JString(StrB)}

\* The inner objects over the first i keys of InnerKeys
RECURSIVE InnerMaps(_)
InnerMaps(i) ==
    IF i = 0 THEN {<<>>}
    ELSE LET prev == InnerMaps(i - 1)
             k == InnerKeys[i]
         IN prev \cup {Extend(m, k, v) : m \in prev, v \in InnerValues(k)}

ClauseValues ==
    {JObject(m) : m \in InnerMaps(Len(InnerKeys))}
        \cup {JString(StrA), JString(StrAB), JI64(5), JF64(Rat(3, 2)), JArray(<<JString(StrA)>>)}

PrefixJsons ==
    {JObject(Single("f", v)) : v \in ClauseValues}
        \cup {JObject(Single("g", JString(StrA))), JObject(<<>>),
              JObject(Extend(Single("f", JObject(Single("query", JString(StrA)))),
                             "hello", JString(StrB))),
              JObject(Extend(Single("f", JString(StrA)), "g", JString(StrA))),
              JString(StrA), JI64(5), JF64(Rat(3, 2))}

TermClause(field, s) == JObject(Single("term", JObject(Single(field, JString(s)))))
PrefixClause(v) == JObject(Single("prefix", JObject(Single("f", v))))

ArrayItems ==
    {TermClause("f", StrA), TermClause("f", StrB), PrefixClause(JString(StrA)),
     PrefixClause(JObject(Extend(Single("value", JString(StrA)), "boost", JI64(2)))),
     PrefixClause(JObject(Single("query", JString(StrA)))),
     JI64(5)}

AndJsons == {JArray(items) : items \in SeqsUpTo(ArrayItems, MaxArray)}

Jsons == PrefixJsons \cup AndJsons

ParseDocs ==
    {DocWith("f", VTSVector(<<StrA, StrB>>)),
     DocWith("f", VTSVector(<<StrA>>)),
     DocWith("f", VString(StrA))}

(***************************************************************************)
(* Parsing a clause and ranking a document against the parsed query        *)
(***************************************************************************)
InitParse ==
    /\ json \in Jsons
    /\ doc \in ParseDocs
    /\ query = MatchNone
    /\ result = Unranked
    /\ parsed = NotParsed
    /\ pc = "start"
    /\ OthersUnused

ParsePrefixQuery ==
    /\ pc = "start"
    /\ parsed' = PrefixParse(json)
    /\ pc' = "prefix_parsed"
    /\ UNCHANGED <<query, doc, result, json>>
    /\ UNCHANGED others

ParseAndQuery ==
    /\ pc = "start"
    /\ parsed' = AndParse(json)
    /\ pc' = "and_parsed"
    /\ UNCHANGED <<query, doc, result, json>>
    /\ UNCHANGED others

RankParsed ==
    /\ pc \in {"prefix_parsed", "and_parsed"}
    /\ parsed.ok
    /\ query' = parsed.query
    /\ result' = Rank(parsed.query, doc)
    /\ pc' = "ranked"
    /\ UNCHANGED <<doc, json, parsed>>
    /\ UNCHANGED others

NextParse == ParsePrefixQuery \/ ParseAndQuery \/ RankParsed

SpecParse == InitParse /\ [][NextParse]_vars

(***************************************************************************)
(* Properties of the clause parsers                                        *)
(***************************************************************************)
\* json is {field: v} for a single field
IsClause(j) == j.kind = "Object" /\ Cardinality(DOMAIN j.map) = 1
ClauseField(j) == CHOOSE k \in DOMAIN j.map : TRUE
ClauseValue(j) == j.map[ClauseField(j)]

IsNumber(j) == j.kind \in {"I64", "F64"}
NumberOf(j) == IF j.kind = "I64" THEN Rat(j.i, 1) ELSE j.x

\* The boost an inner object asks for: 1.0 when it has no boost key
BoostOf(map) == IF "boost" \in DOMAIN map THEN NumberOf(map["boost"]) ELSE One

PrefixTerm(field, s) == ParsedMatchTerm(field, TermString(s), "Prefix")
Boosted(q, b) == IF b = One THEN q ELSE BoostScore(q, b)

\* {field: {alias: v}} or {field: {alias: v, "boost": b}} with b a number
IsFullForm(j, alias) ==
    /\ IsClause(j)
    /\ ClauseValue(j).kind = "Object"
    /\ LET m == ClauseValue(j).map IN
       /\ DOMAIN m \in {{alias}, {alias, "boost"}}
       /\ m[alias].kind = "String"
       /\ "boost" \in DOMAIN m => IsNumber(m["boost"])

\* C5: the Conjunction built by the and-query parser ranks as a boolean AND:
\* it matches a document iff every sub-query matches it.
SubQueryMatches(q, d) ==
    LET t == IF q.type = "BoostScore" THEN q.query ELSE q
    IN Matches(MatchTerm(t.field, t.term, t.matcher, One), d)

C5_ConjunctionIsAnd ==
    (pc = "ranked" /\ query.type = "Conjunction") =>
        /\ result.tag \in {"Some", "None"}
        /\ IsSome(result) <=> \A i \in Idx(query.queries) : SubQueryMatches(query.queries[i], doc)

\* C8: shorthand {field: v} and the full forms with "value" or "prefix" parse
\* to the same Prefix MatchTerm; an integer or float boost is coerced, a boost
\* of 1.0 (or none) adds no wrapper and any other boost wraps the MatchTerm in
\* BoostScore.
C8_PrefixForms ==
    pc = "prefix_parsed" =>
        /\ (IsClause(json) /\ ClauseValue(json).kind = "String") =>
              LET f == ClauseField(json)
                  v == ClauseValue(json)
              IN /\ parsed = Ok(PrefixTerm(f, v.s))
                 /\ PrefixParse(JObject(Single(f, JObject(Single("value", v))))) = parsed
                 /\ PrefixParse(JObject(Single(f, JObject(Single("prefix", v))))) = parsed
        /\ \A alias \in {"value", "prefix"} :
              IsFullForm(json, alias) =>
                  LET m == ClauseValue(json).map
                  IN parsed = Ok(Boosted(PrefixTerm(ClauseField(json), m[alias].s), BoostOf(m)))

\* C8 witness: {"f": {"value": "a", "boost": 2}} parsed to a BoostScore of 2.0
C8_Witness ==
    /\ pc = "prefix_parsed"
    /\ json = JObject(Single("f", JObject(Extend(Single("value", JString(StrA)), "boost", JI64(2)))))
    /\ parsed = Ok(BoostScore(PrefixTerm("f", StrA), Two))

RecognisedOptions == {"value", "prefix", "boost"}

KeyPos(k) == CHOOSE i \in 1..Len(KeyOrder) : KeyOrder[i] = k

\* The first error in the input, NoError when there is none
FirstError(j) ==
    IF j.kind # "Object" THEN ExpectedObject
    ELSE IF Cardinality(DOMAIN j.map) # 1 THEN ExpectedSingleKey
    ELSE LET v == ClauseValue(j) IN
         IF v.kind = "String" THEN NoError
         ELSE IF v.kind # "Object" THEN ExpectedObjectOrString
         ELSE LET bad == {k \in DOMAIN v.map :
                            \/ k \notin RecognisedOptions
                            \/ k = "boost" /\ ~IsNumber(v.map[k])}
              IN IF bad # {}
                 THEN LET first == CHOOSE k \in bad : \A o \in bad : KeyPos(k) <= KeyPos(o)
                      IN IF first = "boost" THEN ExpectedFloat ELSE UnrecognisedKey(first)
                 ELSE IF DOMAIN v.map \cap {"value", "prefix"} = {} THEN ExpectedKey("value")
                 ELSE NoError

\* C9: malformed input is rejected with exactly the first error encountered:
\* ExpectedObject, ExpectedSingleKey, ExpectedObjectOrString, then for the
\* inner keys in order UnrecognisedKey(key) or ExpectedFloat, and last
\* ExpectedKey("value"); well-formed input yields a query.
C9_PrefixErrors ==
    pc = "prefix_parsed" =>
        IF FirstError(json) = NoError THEN parsed.ok
        ELSE parsed = Err(FirstError(json))

\* C9 witness: a bad boost followed by an unrecognised key and no value key
\* reports the boost only.
C9_Witness ==
    /\ pc = "prefix_parsed"
    /\ IsClause(json) /\ ClauseValue(json).kind = "Object"
    /\ DOMAIN ClauseValue(json).map = {"boost", "hello"}
    /\ ~IsNumber(ClauseValue(json).map["boost"])
    /\ parsed = Err(ExpectedFloat)

\* C10: {field: {"query": v}} and {field: {"query": v, "boost": b}} parse to
\* the query that the same input with "value" in place of "query" parses to.
C10_QueryAlias ==
    (pc = "prefix_parsed" /\ IsFullForm(json, "query")) =>
        LET m == ClauseValue(json).map
        IN /\ parsed.ok
           /\ parsed = Ok(Boosted(PrefixTerm(ClauseField(json), m["query"].s), BoostOf(m)))

(***************************************************************************)
(* AnalyzerRegistry                                                        *)
(***************************************************************************)
AnalyzerSpec(tokenizer, filter_seq) == [tokenizer |-> tokenizer, filters |-> filter_seq]

\* HashMap::get: Option<&V>
MapGet(map, name) ==
    IF name \in DOMAIN map THEN [some |-> TRUE, v |-> map[name]]
    ELSE [some |-> FALSE, v |-> Unused]
\* HashMap::insert
MapInsert(map, name, v) == [x \in DOMAIN map \cup {name} |-> IF x = name THEN v ELSE map[x]]
\* HashMap::remove
MapRemove(map, name) == [x \in DOMAIN map \ {name} |-> map[x]]

\* AnalyzerRegistry::new
NewRegistry ==
    LET empty == [analyzers |-> <<>>, tokenizers |-> <<>>, filters |-> <<>>]
        r1 == [empty EXCEPT !.tokenizers = MapInsert(@, "standard", "Standard")]
        r2 == [r1 EXCEPT !.filters = MapInsert(@, "asciifolding", "ASCIIFolding")]
        r3 == [r2 EXCEPT !.filters = MapInsert(@, "lowercase", "Lowercase")]
    IN [r3 EXCEPT !.analyzers =
            MapInsert(@, "standard", AnalyzerSpec("Standard", <<"Lowercase", "ASCIIFolding">>))]

\* get_default_analyzer looking "standard" up in the registry before the hard-coded analyzer
GetDefaultAnalyzer_ViaStandard(r) ==
    LET d == MapGet(r.analyzers, "default")
        st == MapGet(r.analyzers, "standard")
    IN IF d.some THEN d.v
       ELSE IF st.some THEN st.v
       ELSE AnalyzerSpec("Standard", <<"Lowercase", "ASCIIFolding">>)

GetDefaultAnalyzer(r) ==
    LET d == MapGet(r.analyzers, "default")
    IN IF d.some THEN d.v
       ELSE AnalyzerSpec("Standard", <<"Lowercase", "ASCIIFolding">>)

GetDefaultIndexAnalyzer(r) ==
    LET d == MapGet(r.analyzers, "default_index")
    IN IF d.some THEN d.v ELSE GetDefaultAnalyzer(r)

GetDefaultSearchAnalyzer(r) ==
    LET d == MapGet(r.analyzers, "default_search")
    IN IF d.some THEN d.v ELSE GetDefaultAnalyzer(r)

AnalyzerNames == {"default", "default_index", "default_search", "standard"}
AnalyzerSpecs ==
    {AnalyzerSpec("Standard", fs) :
        fs \in {<<"Lowercase", "ASCIIFolding">>, <<"ASCIIFolding", "Lowercase">>, <<"Lowercase">>}}
TokenizerNames == {"standard", "custom"}
FilterNames == {"asciifolding", "lowercase"}
FilterSpecs == {"ASCIIFolding", "Lowercase"}

InitRegistry ==
    /\ registry = NewRegistry
    /\ returned = Unused
    /\ sim_args = Unused
    /\ sim_score = Unused
    /\ query = MatchNone
    /\ doc = EmptyDoc
    /\ result = Unranked
    /\ json = NoJson
    /\ parsed = NotParsed
    /\ pc = "idle"

rankvars == <<query, doc, result, json, parsed>>

\* DerefMut, HashMap::insert on the analyzers
InsertAnalyzer ==
    \E name \in AnalyzerNames, spec \in AnalyzerSpecs :
        /\ registry' = [registry EXCEPT !.analyzers = MapInsert(@, name, spec)]
        /\ pc' = "idle"
        /\ UNCHANGED <<rankvars, returned, sim_args, sim_score>>

\* DerefMut, HashMap::remove on the analyzers
RemoveAnalyzer ==
    \E name \in AnalyzerNames :
        /\ registry' = [registry EXCEPT !.analyzers = MapRemove(@, name)]
        /\ pc' = "idle"
        /\ UNCHANGED <<rankvars, returned, sim_args, sim_score>>

InsertTokenizer ==
    \E name \in TokenizerNames :
        /\ registry' = [registry EXCEPT !.tokenizers = MapInsert(@, name, "Standard")]
        /\ pc' = "idle"
        /\ UNCHANGED <<rankvars, returned, sim_args, sim_score>>

InsertFilter ==
    \E name \in FilterNames, filter \in FilterSpecs :
        /\ registry' = [registry EXCEPT !.filters = MapInsert(@, name, filter)]
        /\ pc' = "idle"
        /\ UNCHANGED <<rankvars, returned, sim_args, sim_score>>

CallGetDefaultIndexAnalyzer ==
    /\ returned' = GetDefaultIndexAnalyzer(registry)
    /\ pc' = "got_index"
    /\ UNCHANGED <<rankvars, registry, sim_args, sim_score>>

CallGetDefaultSearchAnalyzer ==
    /\ returned' = GetDefaultSearchAnalyzer(registry)
    /\ pc' = "got_search"
    /\ UNCHANGED <<rankvars, registry, sim_args, sim_score>>

NextRegistry ==
    \/ InsertAnalyzer
    \/ RemoveAnalyzer
    \/ InsertTokenizer
    \/ InsertFilter
    \/ CallGetDefaultIndexAnalyzer
    \/ CallGetDefaultSearchAnalyzer

SpecRegistry == InitRegistry /\ [][NextRegistry]_vars

\* The analyzer the three-tier fallback selects for a phase
Fallback(phase) ==
    LET a == registry.analyzers IN
    IF phase \in DOMAIN a THEN a[phase]
    ELSE IF "default" \in DOMAIN a THEN a["default"]
    ELSE AnalyzerSpec("Standard", <<"Lowercase", "ASCIIFolding">>)

\* C11: get_default_index_analyzer returns the analyzer registered as
\* "default_index", else the one registered as "default", else the hard-coded
\* standard analyzer whatever "standard" names; get_default_search_analyzer
\* does the same with "default_search"; on a fresh registry both return the
\* standard analyzer.
C11_DefaultAnalyzers ==
    /\ pc = "got_index" => returned = Fallback("default_index")
    /\ pc = "got_search" => returned = Fallback("default_search")
    /\ (pc \in {"got_index", "got_search"} /\ registry = NewRegistry)
          => returned = AnalyzerSpec("Standard", <<"Lowercase", "ASCIIFolding">>)

\* C11 witness: no "default_index" and no "default", "standard" re-registered
\* as another analyzer and "default_search" registered: the index default is
\* the hard-coded standard analyzer.
C11_Witness ==
    /\ pc = "got_index"
    /\ DOMAIN registry.analyzers = {"default_search", "standard"}
    /\ registry.analyzers["standard"] = AnalyzerSpec("Standard", <<"Lowercase">>)
    /\ registry.analyzers["default_search"] = AnalyzerSpec("Standard", <<"ASCIIFolding", "Lowercase">>)
    /\ returned = AnalyzerSpec("Standard", <<"Lowercase", "ASCIIFolding">>)

(***************************************************************************)
(* SimilarityModel                                                         *)
(*                                                                         *)
(* log10 and sqrt are computed exactly; the inputs are drawn so that every *)
(* logarithm is taken of a power of ten and every root of a square.        *)
(***************************************************************************)
FSub(x, y) == FAdd(x, FMul(Rat(-1, 1), y))

RECURSIVE Pow10(_)
Pow10(e) == IF e = 0 THEN 1 ELSE 10 * Pow10(e - 1)

\* log10 of the positive rational n/d, a power of ten
RECURSIVE Log10Exact(_, _)
Log10Exact(n, d) ==
    CASE n = 1 /\ d = 1 -> 0
      [] d = 1 /\ n > 1 /\ n % 10 = 0 -> Log10Exact(n \div 10, 1) + 1
      [] n = 1 /\ d > 1 /\ d % 10 = 0 -> Log10Exact(1, d \div 10) - 1

\* f64::log(10.0)
FLog10(x) ==
    IF IsNaN(x) THEN NaN
    ELSE IF IsInf(x) THEN (IF x.n > 0 THEN x ELSE NaN)
    ELSE IF x.n < 0 THEN NaN
    ELSE IF x.n = 0 THEN Inf(-1)
    ELSE AsF64(Log10Exact(x.n, x.d))

ISqrt(n) == CHOOSE r \in 0..n : r * r = n

\* f64::sqrt
FSqrt(x) ==
    IF IsNaN(x) THEN NaN
    ELSE IF IsInf(x) THEN (IF x.n > 0 THEN x ELSE NaN)
    ELSE IF x.n < 0 THEN NaN
    ELSE Rat(ISqrt(x.n), ISqrt(x.d))

TF_IDF == [model |-> "TF_IDF", k1 |-> Zero, b |-> Zero]
BM25(k1, b) == [model |-> "BM25", k1 |-> k1, b |-> b]

\* tf(term_frequency) = log(term_frequency) + 1.0
Tf(term_frequency) == FAdd(FLog10(AsF64(term_frequency)), One)

\* idf(term_docs, total_docs) = log((total_docs + 1.0) / (term_docs + 1.0)) + 1.0
Idf(term_docs, total_docs) ==
    FAdd(FLog10(FDiv(FAdd(AsF64(total_docs), One), FAdd(AsF64(term_docs), One))), One)

\* average_length of the BM25 arm
AverageLength(total_tokens, total_docs) == FDiv(AsF64(total_tokens), AsF64(total_docs))

\* SimilarityModel::score
Score(self, term_frequency, length, total_tokens, total_docs, total_docs_with_term) ==
    IF self.model = "TF_IDF"
    THEN LET tf == Tf(term_frequency)
             idf == Idf(total_docs_with_term, total_docs)
         IN FMul(tf, idf)
    ELSE LET k1 == self.k1
             b == self.b
             tf == Tf(term_frequency)
             idf == Idf(total_docs_with_term, total_docs)
             average_length == AverageLength(total_tokens, total_docs)
             norm == FAdd(FSub(One, b),
                          FDiv(FMul(b, FSqrt(AsF64(length))), FSqrt(average_length)))
         IN FMul(FMul(idf, FAdd(k1, One)), FDiv(tf, FAdd(tf, FMul(k1, norm))))

\* The divisors of the two divisions of the BM25 arm: total_docs as f64 and
\* average_length.sqrt()
Bm25Divisors(total_tokens, total_docs) ==
    {AsF64(total_docs), FSqrt(AverageLength(total_tokens, total_docs))}

Squares == {r * r : r \in 0..MaxRoot}
DocCounts == {Pow10(e) - 1 : e \in 0..MaxExp}

SimilarityModels == {TF_IDF, BM25(Rat(6, 5), Rat(3, 4)), BM25(Rat(6, 5), Zero)}

SimArgs ==
    {[self |-> self, term_frequency |-> term_frequency, length |-> length,
      total_tokens |-> total_tokens, total_docs |-> total_docs,
      total_docs_with_term |-> total_docs_with_term] :
        self \in SimilarityModels,
        term_frequency \in {Pow10(e) : e \in 0..MaxExp},
        length \in Squares,
        total_tokens \in Squares \cup {n * sq : n \in DocCounts, sq \in Squares},
        total_docs \in DocCounts,
        total_docs_with_term \in DocCounts}

InitSimilarity ==
    /\ sim_args \in {a \in SimArgs :
                        /\ a.total_docs_with_term <= a.total_docs
                        /\ IF a.total_docs = 0 THEN a.total_tokens \in Squares
                           ELSE \E sq \in Squares : a.total_tokens = a.total_docs * sq}
    /\ sim_score = Unused
    /\ registry = Unused
    /\ returned = Unused
    /\ query = MatchNone
    /\ doc = EmptyDoc
    /\ result = Unranked
    /\ json = NoJson
    /\ parsed = NotParsed
    /\ pc = "start"

CallScore ==
    /\ pc = "start"
    /\ sim_score' = Score(sim_args.self, sim_args.term_frequency, sim_args.length,
                          sim_args.total_tokens, sim_args.total_docs,
                          sim_args.total_docs_with_term)
    /\ pc' = "scored"
    /\ UNCHANGED <<rankvars, registry, returned, sim_args>>

NextSimilarity == CallScore

SpecSimilarity == InitSimilarity /\ [][NextSimilarity]_vars

\* C12: on total_docs = 0 or total_tokens = 0 the BM25 score is guarded: no
\* division by zero is computed and the score returned is not NaN.
C12_GuardedScore ==
    (/\ pc = "scored"
     /\ sim_args.self.model = "BM25"
     /\ sim_args.total_docs = 0 \/ sim_args.total_tokens = 0)
        => /\ Zero \notin Bm25Divisors(sim_args.total_tokens, sim_args.total_docs)
           /\ ~IsNaN(sim_score)

====
